---- MODULE Spec2Model ----
(***************************************************************************)
(* A model of the rag-assistant repository: source deduplication, query   *)
(* preprocessing, document loading and ingestion, and the start-up of the *)
(* query front ends.  Every group of variables belongs to one part of the *)
(* program and has its own specification; the other groups stay idle.     *)
(***************************************************************************)
EXTENDS Integers, Sequences, FiniteSets, TLC

VARIABLES
    docs_and_scores,   \* get_unique_sources: its argument
    unique_sources,    \* get_unique_sources: its return value
    dd_pc,             \* "idle" | "input" | "done"
    cq_query,          \* clean_query: the raw query
    cq_once,           \* clean_query(query)
    cq_twice,          \* clean_query(clean_query(query))
    cq_pc,             \* "idle" | "input" | "once" | "twice"
    pq_query,          \* process_query: the raw query
    pq_settings,       \* process_query: settings["model"]
    pq_expand,         \* process_query: the expand flag
    pq_llm,            \* what llm.invoke does when it is called
    pq_result,         \* process_query: a raised exception or the returned dict
    pq_pc,             \* "idle" | "input" | "done"
    ld_kind,           \* which loader is called: "url" | "wikipedia" | "pdf"
    ld_items,          \* the loader's argument, with what each item's load does
    ld_result,         \* the loader's outcome: raised exception, returned docs
    ld_pc,             \* "idle" | "input" | "done"
    in_sources,        \* ingest: the sources file, with what each item's load does
    in_vs_type,        \* ingest: settings["vectorstore"]["type"]
    in_override,       \* ingest: the vectorstore_override argument
    in_env,            \* ingest: the VECTORSTORE_DIR environment variable
    in_fs0,            \* the directories before the first run
    in_fs,             \* the directories: existence, file names, index entries
    in_log,            \* one record per finished run of ingest.main
    sv_mode,           \* the front end: "api" | "cli"
    sv_settings,       \* the settings file of the front end
    sv_sources,        \* the sources file: None when missing, else its mtime
    sv_index0,         \* the configured index directory when the process starts
    sv_index,          \* the configured index directory
    sv_pc,             \* "idle" | "start" | "checked" | "ready" | "done" | "crashed"
    sv_crash,          \* what ended the process: the stage and the exception
    sv_warned,         \* the staleness warning has been emitted
    sv_clients,        \* the model clients constructed so far, in order
    sv_served,         \* the number of questions handled
    sv_last,           \* the outcome of the last question handled
    ev_op,             \* "none" | "precision" | "recall" | "mrr" | "evaluate"
    ev_retrieved,      \* precision_at_k, recall_at_k: retrieved_docs
    ev_relevant,       \* the relevant_docs argument
    ev_k,              \* precision_at_k, recall_at_k: k
    ev_results,        \* mean_reciprocal_rank: the ranked list of each query
    ev_data,           \* evaluate.main: the evaluation items, with what is retrieved
    ev_out,            \* the value returned
    ev_pc,             \* "idle" | "input" | "done"
    cy_query,          \* classify_query: the query
    cy_label,          \* its return value
    cy_pc,             \* "idle" | "input" | "done"
    ck_in,             \* chunk_docs: per document its metadata and how many pieces the splitter makes
    ck_lists,          \* the list objects, by identity
    ck_dicts,          \* the dict objects, by identity
    ck_docs,           \* the identity of each doc.metadata
    ck_chunks,         \* the identity of each returned chunk.metadata
    ck_before,         \* what each dict held when chunk_docs returned
    ck_touched,        \* the position of the chunk the caller changed, 0 for none
    ck_pc              \* "idle" | "input" | "chunked" | "changed"

dedupVars == <<docs_and_scores, unique_sources, dd_pc>>
cleanVars == <<cq_query, cq_once, cq_twice, cq_pc>>
queryVars == <<pq_query, pq_settings, pq_expand, pq_llm, pq_result, pq_pc>>
loaderVars == <<ld_kind, ld_items, ld_result, ld_pc>>
ingestVars == <<in_sources, in_vs_type, in_override, in_env, in_fs0, in_fs, in_log>>
serveVars == <<sv_mode, sv_settings, sv_sources, sv_index0, sv_index, sv_pc,
               sv_crash, sv_warned, sv_clients, sv_served, sv_last>>
evalVars == <<ev_op, ev_retrieved, ev_relevant, ev_k, ev_results, ev_data, ev_out, ev_pc>>
classVars == <<cy_query, cy_label, cy_pc>>
chunkVars == <<ck_in, ck_lists, ck_dicts, ck_docs, ck_chunks, ck_before, ck_touched, ck_pc>>
vars == <<dedupVars, cleanVars, queryVars, loaderVars, ingestVars, serveVars, evalVars, classVars, chunkVars>>

(***************************************************************************)
(* Python values.  None is the empty tuple and a present value x is <<x>>, *)
(* so that dict.get(key) of an absent key and a stored None agree.         *)
(***************************************************************************)
None == <<>>
Some(x) == <<x>>

\* Sequences over S of length at most n.
SeqUpTo(S, n) == UNION {[1..k -> S] : k \in 0..n}

(***************************************************************************)
(* utils.get_unique_sources                                                *)
(***************************************************************************)
MaxResults == 3

\* Metadata of the retrieved chunks: two sources, with or without a page,
\* two titles.  type and name are absent (metadata.get gives None).
Metadatas ==
    [source : {Some("A"), Some("B")},
     type   : {None},
     name   : {None},
     title  : {Some("t1"), Some("t2")},
     page   : {None, Some(1)}]

\* Scores in units of 10^-5; none of them is a rounding tie.
Scores == {12, 27}

\* A retrieval result is a (Document, score) tuple; the document is its metadata.
RetrievalResults == [doc : Metadatas, score : Scores]

\* round(float(score), 4): units of 10^-5 to units of 10^-4, to nearest.
Round4(score) == (score + 5) \div 10

SourceKey_SourceOnly(doc) == <<doc.source>>

\* key = (doc.metadata.get("source"), doc.metadata.get("page"))
SourceKey(doc) == <<doc.source, doc.page>>

\* The dict appended to unique_sources for a kept result.
SourceRecord(doc, score) ==
    [source |-> doc.source, type |-> doc.type, name |-> doc.name,
     title |-> doc.title, page |-> doc.page, score |-> Round4(score)]

\* The for loop of get_unique_sources from index i on, with the loop's state.
RECURSIVE UniqueLoop(_, _, _, _)
UniqueLoop(results, i, seen_keys, acc) ==
    IF i > Len(results) THEN acc
    ELSE LET doc == results[i].doc
             score == results[i].score
             key == SourceKey(doc)
         IN IF key \notin seen_keys
            THEN UniqueLoop(results, i + 1, seen_keys \cup {key},
                            Append(acc, SourceRecord(doc, score)))
            ELSE UniqueLoop(results, i + 1, seen_keys, acc)

get_unique_sources(results) == UniqueLoop(results, 1, {}, <<>>)

DedupIdle ==
    /\ docs_and_scores = <<>>
    /\ unique_sources = <<>>
    /\ dd_pc = "idle"

DedupInit ==
    /\ docs_and_scores \in SeqUpTo(RetrievalResults, MaxResults)
    /\ unique_sources = <<>>
    /\ dd_pc = "input"

GetUniqueSources ==
    /\ dd_pc = "input"
    /\ unique_sources' = get_unique_sources(docs_and_scores)
    /\ dd_pc' = "done"
    /\ UNCHANGED <<docs_and_scores, cleanVars, queryVars, loaderVars, ingestVars, serveVars, evalVars, classVars, chunkVars>>

(***************************************************************************)
(* query_processing.clean_query                                            *)
(* A string is a sequence of characters.  The alphabet has a lower-case    *)
(* and an upper-case letter, a space, a tab, a punctuation character the   *)
(* last substitution removes and one it keeps.                             *)
(***************************************************************************)
MaxLen == 3

Chars == {"a", "Q", " ", "\t", "!", "?"}
Whitespace == {" ", "\t"}        \* str.strip() and \s
TabLike == {"\t"}                \* [\n\r\t]
LowerLetters ==
    {"a", "b", "c", "d", "e", "f", "g", "h", "i", "j", "k", "l", "m",
     "n", "o", "p", "q", "r", "s", "t", "u", "v", "w", "x", "y", "z"}
WordChars == LowerLetters \cup {"Q", "W"}     \* \w
Kept == WordChars \cup Whitespace \cup {"?", "-", "."}   \* [\w\s\?\-\.]

\* str.lower() on one character
LowerChar(c) == IF c = "Q" THEN "q" ELSE IF c = "W" THEN "w" ELSE c

Lower(s) == [i \in 1..Len(s) |-> LowerChar(s[i])]

RECURSIVE LStrip(_)
LStrip(s) == IF s # <<>> /\ Head(s) \in Whitespace THEN LStrip(Tail(s)) ELSE s

RECURSIVE RStrip(_)
RStrip(s) ==
    IF s # <<>> /\ s[Len(s)] \in Whitespace
    THEN RStrip(SubSeq(s, 1, Len(s) - 1)) ELSE s

\* str.strip()
Strip(s) == RStrip(LStrip(s))

\* re.sub(class+, " ", s): every maximal run of characters of the class
\* becomes one space.
RECURSIVE SubRuns(_, _)
SubRuns(s, class) ==
    IF s = <<>> THEN <<>>
    ELSE IF Head(s) \in class
         THEN IF Len(s) > 1 /\ s[2] \in class
              THEN SubRuns(Tail(s), class)
              ELSE <<" ">> \o SubRuns(Tail(s), class)
         ELSE <<Head(s)>> \o SubRuns(Tail(s), class)

\* re.sub(r"[^\w\s\?\-\.]", "", s)
RemoveNoise(s) == SelectSeq(s, LAMBDA c : c \in Kept)

clean_query(query) ==
    LET q1 == Lower(Strip(query))
        q2 == SubRuns(q1, TabLike)
        q3 == SubRuns(q2, Whitespace)
    IN RemoveNoise(q3)

CleanIdle ==
    /\ cq_query = <<>>
    /\ cq_once = <<>>
    /\ cq_twice = <<>>
    /\ cq_pc = "idle"

CleanInit ==
    /\ cq_query \in SeqUpTo(Chars, MaxLen)
    /\ cq_once = <<>>
    /\ cq_twice = <<>>
    /\ cq_pc = "input"

CleanOnce ==
    /\ cq_pc = "input"
    /\ cq_once' = clean_query(cq_query)
    /\ cq_pc' = "once"
    /\ UNCHANGED <<cq_query, cq_twice, dedupVars, queryVars, loaderVars, ingestVars, serveVars, evalVars, classVars, chunkVars>>

CleanTwice ==
    /\ cq_pc = "once"
    /\ cq_twice' = clean_query(cq_once)
    /\ cq_pc' = "twice"
    /\ UNCHANGED <<cq_query, cq_once, dedupVars, queryVars, loaderVars, ingestVars, serveVars, evalVars, classVars, chunkVars>>

(***************************************************************************)
(* chain.build_llm                                                         *)
(* settings["model"] is a record: provider is None when the key is absent, *)
(* and sub tells whether the block of the provider's own settings          *)
(* (settings["model"][provider]) is present.                               *)
(***************************************************************************)
KnownProviders == {"openai", "ollama", "huggingface"}

ModelSettings ==
    [provider : {Some(p) : p \in KnownProviders \cup {"bogus"}} \cup {None},
     sub      : BOOLEAN]

\* The client class each branch constructs.
ClientOf(provider) ==
    CASE provider = "openai" -> "ChatOpenAI"
      [] provider = "ollama" -> "ChatOllama"
      [] provider = "huggingface" -> "HuggingFaceEndpoint"

build_llm_NoRaise(model) ==
    IF model.provider = None THEN [raised |-> Some("KeyError"), clients |-> <<>>]
    ELSE IF model.provider[1] \in KnownProviders
         THEN IF model.sub
              THEN [raised |-> None, clients |-> <<ClientOf(model.provider[1])>>]
              ELSE [raised |-> Some("KeyError"), clients |-> <<>>]
         ELSE [raised |-> None, clients |-> <<"ChatOpenAI">>]

\* build_llm(settings): the exception raised, or the one client constructed.
build_llm(model) ==
    IF model.provider = None THEN [raised |-> Some("KeyError"), clients |-> <<>>]
    ELSE IF model.provider[1] \in KnownProviders
         THEN IF model.sub
              THEN [raised |-> None, clients |-> <<ClientOf(model.provider[1])>>]
              ELSE [raised |-> Some("KeyError"), clients |-> <<>>]
         ELSE [raised |-> Some("ValueError"), clients |-> <<>>]

(***************************************************************************)
(* query_processing: classify_query, extract_keywords, expand_query,       *)
(* process_query                                                           *)
(***************************************************************************)
MaxQueryLen == 2

\* s occurs in q (Python's `s in q` on strings).
IsInfix(s, q) ==
    \E i \in 0..(Len(q) - Len(s)) : SubSeq(q, i + 1, i + Len(s)) = s

factual_keywords ==
    {<<"w","h","e","n">>, <<"w","h","e","r","e">>, <<"w","h","o">>,
     <<"w","h","a","t">>, <<"w","h","i","c","h">>}
conceptual_keywords ==
    {<<"w","h","y">>, <<"h","o","w">>, <<"e","x","p","l","a","i","n">>,
     <<"d","e","s","c","r","i","b","e">>}
procedural_keywords ==
    {<<"s","t","e","p","s">>, <<"p","r","o","c","e","s","s">>,
     <<"h","o","w"," ","t","o">>}

classify_query_FactualFirst(query) ==
    LET q == Lower(query)
    IN IF \E k \in factual_keywords : IsInfix(k, q) THEN "factual"
       ELSE IF \E k \in procedural_keywords : IsInfix(k, q) THEN "procedural"
       ELSE IF \E k \in conceptual_keywords : IsInfix(k, q) THEN "conceptual"
       ELSE "generic"

classify_query(query) ==
    LET q == Lower(query)
    IN IF \E k \in procedural_keywords : IsInfix(k, q) THEN "procedural"
       ELSE IF \E k \in conceptual_keywords : IsInfix(k, q) THEN "conceptual"
       ELSE IF \E k \in factual_keywords : IsInfix(k, q) THEN "factual"
       ELSE "generic"

stopwords ==
    {<<"w","h","a","t">>, <<"i","s">>, <<"t","h","e">>, <<"a">>, <<"a","n">>,
     <<"o","f">>, <<"a","n","d">>, <<"i","n">>, <<"t","o">>, <<"w","h","y">>,
     <<"h","o","w">>, <<"o","n">>}

\* re.findall(r"\b\w+\b", s): the maximal runs of word characters; cur is
\* the run being read.
RECURSIVE FindWords(_, _)
FindWords(s, cur) ==
    IF s = <<>> THEN (IF cur = <<>> THEN <<>> ELSE <<cur>>)
    ELSE IF Head(s) \in WordChars
         THEN FindWords(Tail(s), Append(cur, Head(s)))
         ELSE (IF cur = <<>> THEN <<>> ELSE <<cur>>) \o FindWords(Tail(s), <<>>)

\* list(dict.fromkeys(words)): first occurrences, in order.
RECURSIVE FromKeys(_, _)
FromKeys(words, acc) ==
    IF words = <<>> THEN acc
    ELSE IF \E i \in 1..Len(acc) : acc[i] = Head(words)
         THEN FromKeys(Tail(words), acc)
         ELSE FromKeys(Tail(words), Append(acc, Head(words)))

extract_keywords(query) ==
    LET words == SelectSeq(FindWords(Lower(query), <<>>),
                           LAMBDA w : w \notin stopwords)
    IN FromKeys(words, <<>>)

\* What llm.invoke does: it raises, or it returns a response with this content.
LlmOutcomes ==
    {[raises |-> TRUE, content |-> <<>>]} \cup
    {[raises |-> FALSE, content |-> c] :
        c \in {<<"a", " ", "a">>, <<" ", "Q", "a", " ">>}}

\* expand_query(query, settings): the client is built before the try block;
\* inside it, a failure of llm.invoke falls back to the query.
expand_query(query, model, llm) ==
    LET built == build_llm(model)
    IN IF built.raised # None THEN [raised |-> built.raised, value |-> <<>>]
       ELSE IF llm.raises THEN [raised |-> None, value |-> query]
       ELSE [raised |-> None, value |-> Strip(llm.content)]

process_query(query, model, expand, llm) ==
    LET cleaned == clean_query(query)
        qtype == classify_query(cleaned)
        keywords == extract_keywords(cleaned)
        expanded == IF expand THEN expand_query(cleaned, model, llm)
                    ELSE [raised |-> None, value |-> cleaned]
    IN IF expanded.raised # None THEN [raised |-> expanded.raised, ctx |-> None]
       ELSE [raised |-> None,
             ctx |-> [original |-> query, cleaned |-> cleaned,
                      expanded |-> expanded.value, type |-> qtype,
                      keywords |-> keywords]]

QueryIdle ==
    /\ pq_query = <<>>
    /\ pq_settings = [provider |-> None, sub |-> FALSE]
    /\ pq_expand = FALSE
    /\ pq_llm = [raises |-> FALSE, content |-> <<>>]
    /\ pq_result = None
    /\ pq_pc = "idle"

QueryInit ==
    /\ pq_query \in SeqUpTo(Chars, MaxQueryLen)
    /\ pq_settings \in ModelSettings
    /\ pq_expand \in BOOLEAN
    /\ pq_llm = [raises |-> FALSE, content |-> <<>>]
    /\ pq_result = None
    /\ pq_pc = "input"

ProcessQuery ==
    /\ pq_pc = "input"
    /\ \E llm \in LlmOutcomes :
        /\ pq_llm' = llm
        /\ pq_result' = process_query(pq_query, pq_settings, pq_expand, llm)
    /\ pq_pc' = "done"
    /\ UNCHANGED <<pq_query, pq_settings, pq_expand, dedupVars, cleanVars, loaderVars, ingestVars, serveVars, evalVars, classVars, chunkVars>>

(***************************************************************************)
(* loaders: load_from_urls, load_from_wikipedia, load_from_pdfs,           *)
(* load_all_sources                                                        *)
(* An item carries, next to what the sources file says, what the world     *)
(* does when it is loaded: loads tells whether loader.load() returns       *)
(* (TRUE) or raises (FALSE); a PDF path exists on disk or not.             *)
(***************************************************************************)
MaxItems == 3

UrlItems == [url : {"u1", "u2"}, loads : BOOLEAN]
WikiItems == [query : {None, Some("w1"), Some("w2")}, loads : BOOLEAN]
PdfItems == [path : {"p1.pdf", "p2.pdf"}, exists : BOOLEAN, loads : BOOLEAN]

\* f"Wikipedia:{query}"
WikipediaSource(query) ==
    CASE query = "w1" -> "Wikipedia:w1"
      [] query = "w2" -> "Wikipedia:w2"

\* str(file_path.resolve())
ResolvedPath(path) ==
    CASE path = "p1.pdf" -> "/cwd/p1.pdf"
      [] path = "p2.pdf" -> "/cwd/p2.pdf"

\* The pages PyPDFLoader returns for a file: p1.pdf has one page, p2.pdf two.
PdfPages(path) == IF path = "p1.pdf" THEN <<0>> ELSE <<0, 1>>

\* The documents one item contributes when its load succeeds.
UrlDocs(item) ==
    <<[source |-> Some(item.url), type |-> Some("url"), name |-> None,
       title |-> None, page |-> None]>>

WikiDocs(item) ==
    <<[source |-> Some(WikipediaSource(item.query[1])),
       type |-> Some("wikipedia"), name |-> None,
       title |-> item.query, page |-> None]>>

PdfDocs(item) ==
    LET pages == PdfPages(item.path)
    IN [i \in 1..Len(pages) |->
           [source |-> Some(ResolvedPath(item.path)), type |-> Some("pdf"),
            name |-> Some(item.path), title |-> None,
            page |-> Some(pages[i])]]

\* The body of each for loop from item i on; docs is the list built so far.
RECURSIVE UrlLoop(_, _, _)
UrlLoop(urls, i, docs) ==
    IF i > Len(urls) THEN [raised |-> None, docs |-> docs]
    ELSE IF urls[i].loads
         THEN UrlLoop(urls, i + 1, docs \o UrlDocs(urls[i]))
         ELSE UrlLoop(urls, i + 1, docs)      \* except Exception: logged

load_from_urls(urls) ==
    IF urls = <<>> THEN [raised |-> None, docs |-> <<>>]
    ELSE UrlLoop(urls, 1, <<>>)

RECURSIVE WikiLoop_StopAtFailure(_, _, _)
WikiLoop_StopAtFailure(items, i, docs) ==
    IF i > Len(items) THEN [raised |-> None, docs |-> docs]
    ELSE IF items[i].query = None
         THEN WikiLoop_StopAtFailure(items, i + 1, docs)
         ELSE IF items[i].loads
              THEN WikiLoop_StopAtFailure(items, i + 1, docs \o WikiDocs(items[i]))
              ELSE [raised |-> None, docs |-> docs]

RECURSIVE WikiLoop(_, _, _)
WikiLoop(items, i, docs) ==
    IF i > Len(items) THEN [raised |-> None, docs |-> docs]
    ELSE IF items[i].query = None
         THEN WikiLoop(items, i + 1, docs)    \* missing query: continue
         ELSE IF items[i].loads
              THEN WikiLoop(items, i + 1, docs \o WikiDocs(items[i]))
              ELSE WikiLoop(items, i + 1, docs)   \* except Exception: logged

load_from_wikipedia(items) ==
    IF items = <<>> THEN [raised |-> None, docs |-> <<>>]
    ELSE WikiLoop(items, 1, <<>>)

RECURSIVE PdfLoop(_, _, _)
PdfLoop(pdf_paths, i, docs) ==
    IF i > Len(pdf_paths) THEN [raised |-> None, docs |-> docs]
    ELSE IF pdf_paths[i].exists
         THEN IF pdf_paths[i].loads
              THEN PdfLoop(pdf_paths, i + 1, docs \o PdfDocs(pdf_paths[i]))
              ELSE PdfLoop(pdf_paths, i + 1, docs)   \* except Exception: logged
         ELSE PdfLoop(pdf_paths, i + 1, docs)        \* PDF not found: logged

load_from_pdfs(pdf_paths) ==
    IF pdf_paths = <<>> THEN [raised |-> None, docs |-> <<>>]
    ELSE PdfLoop(pdf_paths, 1, <<>>)

\* docs += load_from_...(sources.get(key, [])) for the three keys, in order.
load_all_sources(sources) ==
    load_from_urls(sources.web_urls).docs
        \o load_from_wikipedia(sources.wikipedia).docs
        \o load_from_pdfs(sources.pdf_files).docs

LoaderIdle ==
    /\ ld_kind = "none"
    /\ ld_items = <<>>
    /\ ld_result = None
    /\ ld_pc = "idle"

LoaderInit ==
    /\ ld_kind \in {"url", "wikipedia", "pdf"}
    /\ ld_items \in SeqUpTo(CASE ld_kind = "url" -> UrlItems
                              [] ld_kind = "wikipedia" -> WikiItems
                              [] ld_kind = "pdf" -> PdfItems, MaxItems)
    /\ ld_result = None
    /\ ld_pc = "input"

LoadFromUrls ==
    /\ ld_pc = "input" /\ ld_kind = "url"
    /\ ld_result' = load_from_urls(ld_items)
    /\ ld_pc' = "done"
    /\ UNCHANGED <<ld_kind, ld_items, dedupVars, cleanVars, queryVars, ingestVars, serveVars, evalVars, classVars, chunkVars>>

LoadFromWikipedia ==
    /\ ld_pc = "input" /\ ld_kind = "wikipedia"
    /\ ld_result' = load_from_wikipedia(ld_items)
    /\ ld_pc' = "done"
    /\ UNCHANGED <<ld_kind, ld_items, dedupVars, cleanVars, queryVars, ingestVars, serveVars, evalVars, classVars, chunkVars>>

LoadFromPdfs ==
    /\ ld_pc = "input" /\ ld_kind = "pdf"
    /\ ld_result' = load_from_pdfs(ld_items)
    /\ ld_pc' = "done"
    /\ UNCHANGED <<ld_kind, ld_items, dedupVars, cleanVars, queryVars, ingestVars, serveVars, evalVars, classVars, chunkVars>>

(***************************************************************************)
(* ingest.main, utils.ensure_dir, utils.chunk_docs,                        *)
(* vectorstore.create_or_load_vectorstore                                  *)
(* A directory is a record: whether it exists, the names of its files and  *)
(* the entries of the index persisted in it.  "D" is the directory the     *)
(* override names, "E" the one VECTORSTORE_DIR names, "P" and "C" the      *)
(* configured persist_dir and chroma_dir.                                  *)
(***************************************************************************)
MaxSourceItems == 1
MaxRuns == 2

chunk_size == 500

Dirs == {"D", "E", "P", "C"}
MissingDir == [exists |-> FALSE, files |-> {}, entries |-> <<>>]
EmptyDir == [exists |-> TRUE, files |-> {}, entries |-> <<>>]

\* The sources files of the ingestion runs: one URL, one Wikipedia query and
\* one PDF of two pages, each present or not, loading or not.
SourcesFiles ==
    [web_urls  : SeqUpTo({i \in UrlItems : i.url = "u1"}, MaxSourceItems),
     wikipedia : SeqUpTo({i \in WikiItems : i.query # Some("w2")
                                            /\ (i.query = None => ~i.loads)},
                         MaxSourceItems),
     pdf_files : SeqUpTo({i \in PdfItems : i.path = "p2.pdf"
                                           /\ (~i.exists => ~i.loads)},
                         MaxSourceItems)]

\* utils.chunk_docs for documents that are not empty and not longer than
\* chunk_size: one chunk per document, with the document's metadata and
\* the chunk_size.
chunk_docs(docs, size) ==
    [i \in 1..Len(docs) |->
        [source |-> docs[i].source, type |-> docs[i].type,
         name |-> docs[i].name, title |-> docs[i].title,
         page |-> docs[i].page, chunk_size |-> Some(size)]]

ResolveDir_EnvFirst(override, env, configured) ==
    IF env # None THEN env[1]
    ELSE IF override # None THEN override[1]
    ELSE configured

\* vectorstore_override or os.getenv("VECTORSTORE_DIR", configured)
ResolveDir(override, env, configured) ==
    IF override # None THEN override[1]
    ELSE IF env # None THEN env[1]
    ELSE configured

\* utils.ensure_dir: Path(path).mkdir(parents=True, exist_ok=True)
ensure_dir(fs, dir) == [fs EXCEPT ![dir].exists = TRUE]

FaissFiles_Versioned(existing) ==
    IF "index.faiss" \in existing
    THEN {"index_1.faiss", "index_1.pkl"}
    ELSE {"index.faiss", "index.pkl"}

\* The files FAISS.save_local writes into a folder that holds `existing`.
FaissFiles(existing) == {"index.faiss", "index.pkl"}

\* FAISS.from_documents(chunks) builds a fresh in-memory index of the
\* chunks; FAISS.save_local(vs, folder_path) writes it over what is there.
FaissSaveLocal(fs, dir, chunks) ==
    [fs EXCEPT ![dir] = [exists |-> TRUE,
                         files |-> fs[dir].files \cup FaissFiles(fs[dir].files),
                         entries |-> chunks]]

\* The files of a persistent Chroma directory: the database, and the
\* segment of the collection once it holds entries.
ChromaFiles(entries) ==
    {"chroma.sqlite3"} \cup (IF entries # <<>> THEN {"segment"} ELSE {})

\* Chroma.from_documents(documents=chunks, persist_directory=dir) opens the
\* collection persisted in dir, creating it when it is missing, and adds
\* the chunks to it.
ChromaFromDocuments(fs, dir, chunks) ==
    LET entries == fs[dir].entries \o chunks
    IN [fs EXCEPT ![dir] = [exists |-> TRUE,
                            files |-> fs[dir].files \cup ChromaFiles(entries),
                            entries |-> entries]]

\* Chroma(embedding_function=..., persist_directory=dir) opens the
\* collection persisted in dir, creating it when it is missing.
ChromaOpen(fs, dir) ==
    [fs EXCEPT ![dir] = [exists |-> TRUE,
                         files |-> fs[dir].files \cup ChromaFiles(fs[dir].entries),
                         entries |-> fs[dir].entries]]

\* create_or_load_vectorstore together with the persisting calls of main
\* that follow it: the exception raised and the directories afterwards.
create_or_load_vectorstore(vs_type, persist_dir, chroma_dir, chunks, fs) ==
    IF vs_type = "faiss"
    THEN IF chunks # <<>>
         THEN [raised |-> None, fs |-> FaissSaveLocal(fs, persist_dir, chunks)]
         ELSE [raised |-> Some("ValueError"), fs |-> fs]
    ELSE IF chunks # <<>>
         THEN [raised |-> None, fs |-> ChromaFromDocuments(fs, chroma_dir, chunks)]
         ELSE [raised |-> None, fs |-> ChromaOpen(fs, chroma_dir)]

\* One run of ingest.main: its log record and the directories afterwards.
ingest_main(sources, vs_type, override, env, fs) ==
    LET faiss_dir == ResolveDir(override, env, "P")
        chroma_dir == ResolveDir(override, env, "C")
        docs == load_all_sources(sources)
        chunks == chunk_docs(docs, chunk_size)
        target == IF vs_type = "faiss" THEN faiss_dir ELSE chroma_dir
        built == IF vs_type = "faiss"
                 THEN create_or_load_vectorstore("faiss", faiss_dir, chroma_dir,
                                                 chunks, ensure_dir(fs, faiss_dir))
                 ELSE create_or_load_vectorstore("chroma", faiss_dir, chroma_dir,
                                                 chunks, fs)
    IN [fs |-> built.fs,
        run |-> [raised |-> built.raised, target |-> target,
                 chunks |-> chunks, files |-> built.fs[target].files]]

IngestIdle ==
    /\ in_sources = [web_urls |-> <<>>, wikipedia |-> <<>>, pdf_files |-> <<>>]
    /\ in_vs_type = "none"
    /\ in_override = None
    /\ in_env = None
    /\ in_fs0 = [d \in Dirs |-> MissingDir]
    /\ in_fs = in_fs0
    /\ in_log = <<>>

IngestInit ==
    /\ in_sources \in SourcesFiles
    /\ in_vs_type \in {"faiss", "chroma"}
    /\ in_override \in {None, Some("D")}
    /\ in_env \in {None, Some("E")}
    /\ in_fs0 \in {[d \in Dirs |-> MissingDir], [d \in Dirs |-> EmptyDir]}
    /\ in_fs = in_fs0
    /\ in_log = <<>>

IngestMain ==
    /\ Len(in_log) < MaxRuns
    /\ in_vs_type # "none"
    /\ LET r == ingest_main(in_sources, in_vs_type, in_override, in_env, in_fs)
       IN /\ in_fs' = r.fs
          /\ in_log' = Append(in_log, r.run)
    /\ UNCHANGED <<in_sources, in_vs_type, in_override, in_env, in_fs0,
                   dedupVars, cleanVars, queryVars, loaderVars, serveVars, evalVars, classVars, chunkVars>>

(***************************************************************************)
(* The query front ends: api (module start-up and the /ask handler) and    *)
(* cli.main, with warn_if_stale, chain.load_vectorstore and                *)
(* chain.build_rag_chain.                                                  *)
(* The settings tell which keys of settings["vectorstore"] are present;    *)
(* the index directory is the one configured for the vectorstore type: it  *)
(* exists or not and holds files with these modification times.            *)
(***************************************************************************)
MaxRequests == 2

ServeSettings ==
    [model       : ModelSettings,
     vs_type     : {"faiss", "chroma"},
     persist_dir : BOOLEAN,
     chroma_dir  : BOOLEAN,
     expand      : BOOLEAN]

\* Missing, empty, or holding an index written at time 2.
IndexDirs ==
    {[exists |-> FALSE, mtimes |-> {}],
     [exists |-> TRUE, mtimes |-> {}],
     [exists |-> TRUE, mtimes |-> {2}]}

\* The sources file: missing, or modified before or after the index.
SourcesMtimes == {None, Some(1), Some(3)}

SetMax(S) == CHOOSE x \in S : \A y \in S : y <= x

\* cli.warn_if_stale and utils.warn_if_stale: both directory keys are read
\* before anything else; a missing sources file ends the check; the
\* warning compares the sources mtime to the newest index file.
warn_if_stale(settings, sources, index) ==
    IF ~settings.chroma_dir \/ ~settings.persist_dir
    THEN [raised |-> Some("KeyError"), warned |-> FALSE]
    ELSE IF sources = None
         THEN [raised |-> None, warned |-> FALSE]
         ELSE LET index_mtime ==
                      IF index.exists /\ index.mtimes # {}
                      THEN Some(SetMax(index.mtimes)) ELSE None
              IN [raised |-> None,
                  warned |-> index_mtime # None /\ sources[1] > index_mtime[1]]

\* chain.load_vectorstore: the exception raised and the index directory
\* afterwards.  FAISS.load_local raises on a folder without an index;
\* Chroma(persist_directory=...) creates what is missing.
load_vectorstore(settings, index) ==
    IF settings.vs_type = "faiss"
    THEN IF ~settings.persist_dir
         THEN [raised |-> Some("KeyError"), index |-> index]
         ELSE IF ~index.exists
              THEN [raised |-> Some("FileNotFoundError"), index |-> index]
              ELSE IF index.mtimes = {}
                   THEN [raised |-> Some("RuntimeError"), index |-> index]
                   ELSE [raised |-> None, index |-> index]
    ELSE IF ~settings.chroma_dir
         THEN [raised |-> Some("KeyError"), index |-> index]
         ELSE [raised |-> None,
               index |-> [exists |-> TRUE,
                          mtimes |-> IF index.mtimes = {} THEN {4}
                                     ELSE index.mtimes]]

\* chain.build_rag_chain: the vector store is loaded, then the client built.
build_rag_chain(settings, index) ==
    LET vs == load_vectorstore(settings, index)
        llm == build_llm(settings.model)
    IN IF vs.raised # None
       THEN [raised |-> vs.raised, index |-> vs.index, clients |-> <<>>]
       ELSE [raised |-> llm.raised, index |-> vs.index, clients |-> llm.clients]

\* The questions asked, and what the vector store retrieves for them.
Questions == {<<"Q", "!">>, <<"a", " ", "a">>}
Retrieved ==
    {<<>>,
     <<[doc |-> [source |-> Some("A"), type |-> None, name |-> None,
                 title |-> Some("t1"), page |-> None], score |-> 12],
       [doc |-> [source |-> Some("A"), type |-> None, name |-> None,
                 title |-> Some("t2"), page |-> None], score |-> 27]>>}

\* What chain.invoke does: it raises, or returns a message whose content is
\* a string, or one whose content is a list of content blocks.
ChainOutcomes ==
    {[raises |-> TRUE, is_str |-> TRUE, content |-> <<>>],
     [raises |-> FALSE, is_str |-> TRUE, content |-> <<" ", "a", " ">>],
     [raises |-> FALSE, is_str |-> FALSE, content |-> <<>>]}

\* The steps of a question, shared by api.ask and cli.main: process_query,
\* chain.invoke, similarity_search_with_score, get_unique_sources and
\* answer.strip().  The first exception ends it.
answer_question(question, settings, llm, chain, search_ok, results) ==
    LET qp == process_query(question, settings.model, settings.expand, llm)
    IN IF qp.raised # None
       THEN [raised |-> qp.raised, step |-> "process_query", body |-> None]
       ELSE IF chain.raises
            THEN [raised |-> Some("ChainError"), step |-> "chain.invoke",
                  body |-> None]
            ELSE IF ~search_ok
                 THEN [raised |-> Some("SearchError"),
                       step |-> "similarity_search_with_score", body |-> None]
                 ELSE IF ~chain.is_str
                      THEN [raised |-> Some("AttributeError"),
                            step |-> "answer.strip", body |-> None]
                      ELSE [raised |-> None, step |-> "return",
                            body |-> Some([query_metadata |-> qp.ctx,
                                           answer |-> Strip(chain.content),
                                           sources |-> get_unique_sources(results)])]

ask_response_LeakDetail(r) ==
    IF r.raised # None
    THEN Some([status |-> 500, detail |-> r.raised[1], body |-> None,
               cause |-> r.raised[1], step |-> r.step])
    ELSE Some([status |-> 200, detail |-> "", body |-> r.body,
               cause |-> "", step |-> r.step])

\* The response of api.ask: the returned dict as a 200, or the HTTPException
\* of the except clause; cause and step record what was raised and where.
ask_response(r) ==
    IF r.raised # None
    THEN Some([status |-> 500, detail |-> "Internal server error",
               body |-> None, cause |-> r.raised[1], step |-> r.step])
    ELSE Some([status |-> 200, detail |-> "", body |-> r.body,
               cause |-> "", step |-> r.step])

\* The clients a question constructs: expand_query builds one per call.
ClientsOfQuestion(settings) ==
    IF settings.expand THEN build_llm(settings.model).clients ELSE <<>>

ServeIdle ==
    /\ sv_mode = "none"
    /\ sv_settings = None
    /\ sv_sources = None
    /\ sv_index0 = [exists |-> FALSE, mtimes |-> {}]
    /\ sv_index = sv_index0
    /\ sv_pc = "idle"
    /\ sv_crash = None
    /\ sv_warned = FALSE
    /\ sv_clients = <<>>
    /\ sv_served = 0
    /\ sv_last = None

ServeInit ==
    /\ sv_mode \in {"api", "cli"}
    /\ sv_settings \in ServeSettings
    /\ sv_sources \in SourcesMtimes
    /\ sv_index0 \in IndexDirs
    /\ sv_index = sv_index0
    /\ sv_pc = "start"
    /\ sv_crash = None
    /\ sv_warned = FALSE
    /\ sv_clients = <<>>
    /\ sv_served = 0
    /\ sv_last = None

\* api module start-up (line 21) and cli.main (line 61): the staleness check
\* comes first, and an exception of it ends the process.
WarnIfStale ==
    /\ sv_pc = "start"
    /\ LET r == warn_if_stale(sv_settings, sv_sources, sv_index)
       IN /\ sv_warned' = r.warned
          /\ IF r.raised # None
             THEN /\ sv_pc' = "crashed"
                  /\ sv_crash' = Some([stage |-> "warn_if_stale", exc |-> r.raised[1]])
             ELSE /\ sv_pc' = "checked"
                  /\ sv_crash' = sv_crash
    /\ UNCHANGED <<sv_mode, sv_settings, sv_sources, sv_index0, sv_index,
                   sv_clients, sv_served, sv_last,
                   dedupVars, cleanVars, queryVars, loaderVars, ingestVars, evalVars, classVars, chunkVars>>

\* api module start-up (lines 30-37) and cli.main (line 72): the chain is
\* built once; an exception is logged and raised again.
BuildRagChain ==
    /\ sv_pc = "checked"
    /\ LET r == build_rag_chain(sv_settings, sv_index)
       IN /\ sv_index' = r.index
          /\ sv_clients' = sv_clients \o r.clients
          /\ IF r.raised # None
             THEN /\ sv_pc' = "crashed"
                  /\ sv_crash' = Some([stage |-> "build_rag_chain", exc |-> r.raised[1]])
             ELSE /\ sv_pc' = "ready"
                  /\ sv_crash' = sv_crash
    /\ UNCHANGED <<sv_mode, sv_settings, sv_sources, sv_index0, sv_warned,
                   sv_served, sv_last,
                   dedupVars, cleanVars, queryVars, loaderVars, ingestVars, evalVars, classVars, chunkVars>>

\* api.ask: every exception becomes the fixed 500 response.
Ask ==
    /\ sv_pc = "ready" /\ sv_mode = "api"
    /\ sv_served < MaxRequests
    /\ \E question \in Questions, llm \in LlmOutcomes,
          chain \in ChainOutcomes, search_ok \in BOOLEAN, results \in Retrieved :
        sv_last' = ask_response(answer_question(question, sv_settings, llm, chain,
                                                search_ok, results))
    /\ sv_clients' = sv_clients \o ClientsOfQuestion(sv_settings)
    /\ sv_served' = sv_served + 1
    /\ UNCHANGED <<sv_mode, sv_settings, sv_sources, sv_index0, sv_index,
                   sv_pc, sv_crash, sv_warned,
                   dedupVars, cleanVars, queryVars, loaderVars, ingestVars, evalVars, classVars, chunkVars>>

\* cli.main after the chain is built: one question; an exception propagates.
CliQuestion ==
    /\ sv_pc = "ready" /\ sv_mode = "cli"
    /\ \E question \in Questions, llm \in LlmOutcomes,
          chain \in ChainOutcomes, search_ok \in BOOLEAN, results \in Retrieved :
        LET r == answer_question(question, sv_settings, llm, chain,
                                 search_ok, results)
        IN IF r.raised # None
           THEN /\ sv_pc' = "crashed"
                /\ sv_crash' = Some([stage |-> "query", exc |-> r.raised[1]])
                /\ sv_last' = sv_last
           ELSE /\ sv_pc' = "done"
                /\ sv_crash' = sv_crash
                /\ sv_last' = Some([status |-> 0, detail |-> "", body |-> r.body,
                                    cause |-> "", step |-> r.step])
    /\ sv_clients' = sv_clients \o ClientsOfQuestion(sv_settings)
    /\ sv_served' = sv_served + 1
    /\ UNCHANGED <<sv_mode, sv_settings, sv_sources, sv_index0, sv_index,
                   sv_warned,
                   dedupVars, cleanVars, queryVars, loaderVars, ingestVars, evalVars, classVars, chunkVars>>

(***************************************************************************)
(* evaluation: precision_at_k, recall_at_k, mean_reciprocal_rank, and      *)
(* evaluate.main                                                           *)
(* A float is kept as the exact fraction the division is applied to; two   *)
(* fractions are compared by cross-multiplication.                         *)
(***************************************************************************)
MaxRetrieved == 3
MaxRelevant == 2
MaxK == 3
MaxRank == 2
MaxQueries == 2
MaxEvalItems == 2

\* k: int = 5, and similarity_search(question, k=5)
DefaultK == 5

EvalSources == {"A", "B"}

\* A retrieved document: its metadata holds the source.
EvalDocs == [source : {Some(s) : s \in EvalSources}]

Frac(n, d) == [num |-> n, den |-> d]
Zero == Frac(0, 1)                       \* 0.0
FracEq(x, y) == x.num * y.den = y.num * x.den
FracLe(x, y) == x.num * y.den <= y.num * x.den
FracLt(x, y) == x.num * y.den < y.num * x.den
FracAdd(x, y) == Frac(x.num * y.den + y.num * x.den, x.den * y.den)

\* s in relevant_docs
InList(s, list) == \E i \in 1..Len(list) : list[i] = s

\* retrieved_docs[:k] for k >= 0
Prefix(list, k) == SubSeq(list, 1, IF k < Len(list) THEN k ELSE Len(list))

\* [d.metadata.get("source") for d in retrieved_docs[:k]]
RetrievedSources(retrieved_docs, k) ==
    LET top == Prefix(retrieved_docs, k)
    IN [i \in 1..Len(top) |-> top[i].source]

\* [s for s in retrieved_sources if s in relevant_docs]
RelevantHits(retrieved_sources, relevant_docs) ==
    SelectSeq(retrieved_sources,
              LAMBDA s : s # None /\ InList(s[1], relevant_docs))

precision_at_k(retrieved_docs, relevant_docs, k) ==
    LET hits == RelevantHits(RetrievedSources(retrieved_docs, k), relevant_docs)
    IN IF k > 0 THEN Frac(Len(hits), k) ELSE Zero

recall_at_k(retrieved_docs, relevant_docs, k) ==
    LET hits == RelevantHits(RetrievedSources(retrieved_docs, k), relevant_docs)
    IN IF relevant_docs # <<>> THEN Frac(Len(hits), Len(relevant_docs)) ELSE Zero

RECURSIVE RankLoop_LastHit(_, _, _)
RankLoop_LastHit(query_results, rank, relevant_docs) ==
    IF rank > Len(query_results) THEN Zero
    ELSE LET rest == RankLoop_LastHit(query_results, rank + 1, relevant_docs)
         IN IF rest # Zero THEN rest
            ELSE IF InList(query_results[rank], relevant_docs)
                 THEN Frac(1, rank) ELSE Zero

\* The inner for loop of mean_reciprocal_rank from this rank on: 1.0 / rank
\* at the first relevant document (break), 0.0 when the loop runs out (else).
RECURSIVE RankLoop(_, _, _)
RankLoop(query_results, rank, relevant_docs) ==
    IF rank > Len(query_results) THEN Zero
    ELSE IF InList(query_results[rank], relevant_docs) THEN Frac(1, rank)
         ELSE RankLoop(query_results, rank + 1, relevant_docs)

\* sum(ranks)
RECURSIVE SumFrac(_)
SumFrac(ranks) ==
    IF ranks = <<>> THEN Zero ELSE FracAdd(Head(ranks), SumFrac(Tail(ranks)))

mean_reciprocal_rank(results, relevant_docs) ==
    LET ranks == [q \in 1..Len(results) |-> RankLoop(results[q], 1, relevant_docs)]
        total == SumFrac(ranks)
    IN IF ranks # <<>> THEN Frac(total.num, total.den * Len(ranks)) ELSE Zero

PooledRelevant_FirstItemOnly(eval_data) ==
    IF eval_data = <<>> THEN <<>> ELSE eval_data[1].relevant_docs

\* [r for d in eval_data for r in d["relevant_docs"]]
RECURSIVE PooledRelevant(_)
PooledRelevant(eval_data) ==
    IF eval_data = <<>> THEN <<>>
    ELSE Head(eval_data).relevant_docs \o PooledRelevant(Tail(eval_data))

\* The relevant_docs lists of the evaluation file: each names a source once.
RelevantLists == {<<>>, <<"A">>, <<"B">>, <<"A", "B">>}

\* An evaluation item: its relevant_docs, and the documents the vector
\* store retrieves for its question.
EvalItems ==
    [relevant_docs : RelevantLists,
     results       : SeqUpTo(EvalDocs, MaxRank)]

\* evaluate.main: the metrics of every item, the MRR over the pooled
\* relevant documents, and the three means printed; the first mean divides
\* by the number of items.
evaluate_main(eval_data) ==
    LET precisions == [i \in 1..Len(eval_data) |->
                          precision_at_k(eval_data[i].results,
                                         eval_data[i].relevant_docs, DefaultK)]
        recalls == [i \in 1..Len(eval_data) |->
                       recall_at_k(eval_data[i].results,
                                   eval_data[i].relevant_docs, DefaultK)]
        all_ranks == [i \in 1..Len(eval_data) |->
                         [r \in 1..Len(eval_data[i].results) |->
                             eval_data[i].results[r].source[1]]]
        mrr == mean_reciprocal_rank(all_ranks, PooledRelevant(eval_data))
        p == SumFrac(precisions)
        r == SumFrac(recalls)
    IN IF eval_data = <<>>
       THEN [raised |-> Some("ZeroDivisionError"), precision |-> Zero,
             recall |-> Zero, mrr |-> Zero]
       ELSE [raised |-> None,
             precision |-> Frac(p.num, p.den * Len(precisions)),
             recall |-> Frac(r.num, r.den * Len(recalls)),
             mrr |-> mrr]

EvalIdle ==
    /\ ev_op = "none"
    /\ ev_retrieved = <<>>
    /\ ev_relevant = <<>>
    /\ ev_k = 0
    /\ ev_results = <<>>
    /\ ev_data = <<>>
    /\ ev_out = None
    /\ ev_pc = "idle"

EvalInit ==
    /\ ev_op \in {"precision", "recall", "mrr", "evaluate"}
    /\ IF ev_op \in {"precision", "recall"}
       THEN /\ ev_retrieved \in SeqUpTo(EvalDocs, MaxRetrieved)
            /\ ev_k \in 0..MaxK
       ELSE /\ ev_retrieved = <<>>
            /\ ev_k = 0
    /\ IF ev_op = "evaluate" THEN ev_relevant = <<>>
       ELSE ev_relevant \in SeqUpTo(EvalSources, MaxRelevant)
    /\ IF ev_op = "mrr"
       THEN ev_results \in SeqUpTo(SeqUpTo(EvalSources, MaxRank), MaxQueries)
       ELSE ev_results = <<>>
    /\ IF ev_op = "evaluate"
       THEN ev_data \in SeqUpTo(EvalItems, MaxEvalItems)
       ELSE ev_data = <<>>
    /\ ev_out = None
    /\ ev_pc = "input"

PrecisionAtK ==
    /\ ev_pc = "input" /\ ev_op = "precision"
    /\ ev_out' = precision_at_k(ev_retrieved, ev_relevant, ev_k)
    /\ ev_pc' = "done"
    /\ UNCHANGED <<ev_op, ev_retrieved, ev_relevant, ev_k, ev_results, ev_data,
                   dedupVars, cleanVars, queryVars, loaderVars, ingestVars,
                   serveVars, classVars, chunkVars>>

RecallAtK ==
    /\ ev_pc = "input" /\ ev_op = "recall"
    /\ ev_out' = recall_at_k(ev_retrieved, ev_relevant, ev_k)
    /\ ev_pc' = "done"
    /\ UNCHANGED <<ev_op, ev_retrieved, ev_relevant, ev_k, ev_results, ev_data,
                   dedupVars, cleanVars, queryVars, loaderVars, ingestVars,
                   serveVars, classVars, chunkVars>>

MeanReciprocalRank ==
    /\ ev_pc = "input" /\ ev_op = "mrr"
    /\ ev_out' = mean_reciprocal_rank(ev_results, ev_relevant)
    /\ ev_pc' = "done"
    /\ UNCHANGED <<ev_op, ev_retrieved, ev_relevant, ev_k, ev_results, ev_data,
                   dedupVars, cleanVars, queryVars, loaderVars, ingestVars,
                   serveVars, classVars, chunkVars>>

EvaluateMain ==
    /\ ev_pc = "input" /\ ev_op = "evaluate"
    /\ ev_out' = evaluate_main(ev_data)
    /\ ev_pc' = "done"
    /\ UNCHANGED <<ev_op, ev_retrieved, ev_relevant, ev_k, ev_results, ev_data,
                   dedupVars, cleanVars, queryVars, loaderVars, ingestVars,
                   serveVars, classVars, chunkVars>>

(***************************************************************************)
(* query_processing.classify_query on queries made of whole words          *)
(***************************************************************************)
MaxWords == 2

\* Words of a query: keywords of each category, "to" (which makes the
\* procedural keyword "how to" after "how"), a capitalised keyword, a word
\* that contains the keyword "how" and a word that contains none.
QueryWords ==
    {<<"s","t","e","p","s">>, <<"p","r","o","c","e","s","s">>,
     <<"w","h","a","t">>, <<"W","h","o">>, <<"w","h","y">>,
     <<"h","o","w">>, <<"t","o">>, <<"s","h","o","w">>, <<"c","a","t">>}

\* " ".join(words)
RECURSIVE JoinWords(_)
JoinWords(words) ==
    IF words = <<>> THEN <<>>
    ELSE IF Len(words) = 1 THEN words[1]
    ELSE words[1] \o <<" ">> \o JoinWords(Tail(words))

ClassIdle ==
    /\ cy_query = <<>>
    /\ cy_label = None
    /\ cy_pc = "idle"

ClassInit ==
    /\ cy_query \in {JoinWords(ws) : ws \in SeqUpTo(QueryWords, MaxWords)}
    /\ cy_label = None
    /\ cy_pc = "input"

ClassifyQuery ==
    /\ cy_pc = "input"
    /\ cy_label' = Some(classify_query(cy_query))
    /\ cy_pc' = "done"
    /\ UNCHANGED <<cy_query, dedupVars, cleanVars, queryVars, loaderVars,
                   ingestVars, serveVars, evalVars, chunkVars>>

(***************************************************************************)
(* utils.chunk_docs with the identity of the metadata objects              *)
(* A dict and a list are objects: ck_dicts and ck_lists hold them by       *)
(* identity, and the "tags" value of a dict is the identity of a list.     *)
(***************************************************************************)
MaxDocs == 2
MaxPieces == 2

\* The metadata of an input document: a "source" string and, when present,
\* a nested "tags" list; pieces is the number of chunks
\* splitter.split_documents([doc]) returns for the document's text.
ChunkDocInputs ==
    [source : {"s", "t"}, tags : {None, Some(<<"x">>)}, pieces : 0..MaxPieces]

\* The identity of the tags list of document i: the lists are numbered in
\* document order.
ListId(in, i) == Cardinality({j \in 1..i : in[j].tags # None})

\* The list objects of the input documents.
InputLists(in) ==
    [l \in 1..ListId(in, Len(in)) |->
        in[CHOOSE j \in 1..Len(in) : in[j].tags # None /\ ListId(in, j) = l].tags[1]]

\* The doc.metadata dicts of the input documents; none has a chunk_size key.
InputDicts(in) ==
    [i \in 1..Len(in) |->
        [source |-> in[i].source,
         tags |-> IF in[i].tags = None THEN None ELSE Some(ListId(in, i)),
         chunk_size |-> None]]

\* chunk.metadata = dict(doc.metadata); chunk.metadata["chunk_size"] =
\* chunk_size: a new dict with the keys of the parent's, each bound to the
\* same value object as in the parent's.
CopyMetadata(dicts, lists, parent, size) ==
    [dict |-> [source |-> dicts[parent].source,
               tags |-> dicts[parent].tags,
               chunk_size |-> Some(size)],
     lists |-> lists]

\* The inner loop over the chunks of one document, piece by piece.
RECURSIVE ChunkLoop(_, _, _, _, _)
ChunkLoop(heap, parent, pieces, size, chunks) ==
    IF pieces = 0 THEN [dicts |-> heap.dicts, lists |-> heap.lists, chunks |-> chunks]
    ELSE LET c == CopyMetadata(heap.dicts, heap.lists, parent, size)
         IN ChunkLoop([dicts |-> Append(heap.dicts, c.dict), lists |-> c.lists],
                      parent, pieces - 1, size,
                      Append(chunks, Len(heap.dicts) + 1))

\* The outer loop over docs from document i on; all_chunks.extend(chunks).
RECURSIVE DocLoop(_, _, _, _, _)
DocLoop(heap, in, i, size, all_chunks) ==
    IF i > Len(in) THEN [dicts |-> heap.dicts, lists |-> heap.lists,
                         chunks |-> all_chunks]
    ELSE LET r == ChunkLoop(heap, i, in[i].pieces, size, all_chunks)
         IN DocLoop([dicts |-> r.dicts, lists |-> r.lists], in, i + 1, size,
                    r.chunks)

\* What a dict holds, nested values included.
Holds(dicts, lists, d) ==
    [source |-> dicts[d].source,
     tags |-> IF dicts[d].tags = None THEN None
              ELSE Some(lists[dicts[d].tags[1]]),
     chunk_size |-> dicts[d].chunk_size]

ChunkIdle ==
    /\ ck_in = <<>>
    /\ ck_lists = <<>>
    /\ ck_dicts = <<>>
    /\ ck_docs = <<>>
    /\ ck_chunks = <<>>
    /\ ck_before = <<>>
    /\ ck_touched = 0
    /\ ck_pc = "idle"

ChunkInit ==
    /\ ck_in \in SeqUpTo(ChunkDocInputs, MaxDocs)
    /\ ck_lists = InputLists(ck_in)
    /\ ck_dicts = InputDicts(ck_in)
    /\ ck_docs = [i \in 1..Len(ck_in) |-> i]
    /\ ck_chunks = <<>>
    /\ ck_before = <<>>
    /\ ck_touched = 0
    /\ ck_pc = "input"

\* chunks = chunk_docs(docs, chunk_size, chunk_overlap)
ChunkDocs ==
    /\ ck_pc = "input"
    /\ LET r == DocLoop([dicts |-> ck_dicts, lists |-> ck_lists], ck_in, 1,
                        chunk_size, <<>>)
       IN /\ ck_dicts' = r.dicts
          /\ ck_lists' = r.lists
          /\ ck_chunks' = r.chunks
          /\ ck_before' = [d \in 1..Len(r.dicts) |-> Holds(r.dicts, r.lists, d)]
    /\ ck_touched' = 0
    /\ ck_pc' = "chunked"
    /\ UNCHANGED <<ck_in, ck_docs, dedupVars, cleanVars, queryVars, loaderVars,
                   ingestVars, serveVars, evalVars, classVars>>

\* The caller rebinds a top-level key of one chunk:
\* chunks[c].metadata["source"] = "z"
SetChunkKey ==
    /\ ck_pc = "chunked"
    /\ \E c \in 1..Len(ck_chunks) :
        /\ ck_dicts' = [ck_dicts EXCEPT ![ck_chunks[c]].source = "z"]
        /\ ck_touched' = c
    /\ ck_pc' = "changed"
    /\ UNCHANGED <<ck_in, ck_lists, ck_docs, ck_chunks, ck_before, dedupVars,
                   cleanVars, queryVars, loaderVars, ingestVars, serveVars,
                   evalVars, classVars>>

\* The caller changes a nested value of one chunk:
\* chunks[c].metadata["tags"].append("y")
AppendChunkTag ==
    /\ ck_pc = "chunked"
    /\ \E c \in 1..Len(ck_chunks) :
        /\ ck_dicts[ck_chunks[c]].tags # None
        /\ ck_lists' = [ck_lists EXCEPT ![ck_dicts[ck_chunks[c]].tags[1]] =
                                             Append(@, "y")]
        /\ ck_touched' = c
    /\ ck_pc' = "changed"
    /\ UNCHANGED <<ck_in, ck_dicts, ck_docs, ck_chunks, ck_before, dedupVars,
                   cleanVars, queryVars, loaderVars, ingestVars, serveVars,
                   evalVars, classVars>>

(***************************************************************************)
(* Specifications                                                          *)
(***************************************************************************)
InitDedup == DedupInit /\ CleanIdle /\ QueryIdle /\ LoaderIdle /\ IngestIdle /\ ServeIdle /\ EvalIdle /\ ClassIdle /\ ChunkIdle
NextDedup == GetUniqueSources
SpecDedup == InitDedup /\ [][NextDedup]_vars

InitClean == CleanInit /\ DedupIdle /\ QueryIdle /\ LoaderIdle /\ IngestIdle /\ ServeIdle /\ EvalIdle /\ ClassIdle /\ ChunkIdle
NextClean == CleanOnce \/ CleanTwice
SpecClean == InitClean /\ [][NextClean]_vars

InitQuery == QueryInit /\ DedupIdle /\ CleanIdle /\ LoaderIdle /\ IngestIdle /\ ServeIdle /\ EvalIdle /\ ClassIdle /\ ChunkIdle
NextQuery == ProcessQuery
SpecQuery == InitQuery /\ [][NextQuery]_vars

InitLoaders == LoaderInit /\ DedupIdle /\ CleanIdle /\ QueryIdle /\ IngestIdle /\ ServeIdle /\ EvalIdle /\ ClassIdle /\ ChunkIdle
NextLoaders == LoadFromUrls \/ LoadFromWikipedia \/ LoadFromPdfs
SpecLoaders == InitLoaders /\ [][NextLoaders]_vars

InitIngest == IngestInit /\ DedupIdle /\ CleanIdle /\ QueryIdle /\ LoaderIdle /\ ServeIdle /\ EvalIdle /\ ClassIdle /\ ChunkIdle
NextIngest == IngestMain
SpecIngest == InitIngest /\ [][NextIngest]_vars

InitServe ==
    ServeInit /\ DedupIdle /\ CleanIdle /\ QueryIdle /\ LoaderIdle /\ IngestIdle /\ EvalIdle /\ ClassIdle /\ ChunkIdle
NextServe == WarnIfStale \/ BuildRagChain \/ Ask \/ CliQuestion
SpecServe == InitServe /\ [][NextServe]_vars

InitEval ==
    EvalInit /\ DedupIdle /\ CleanIdle /\ QueryIdle /\ LoaderIdle /\ IngestIdle /\ ServeIdle /\ ClassIdle /\ ChunkIdle
NextEval == PrecisionAtK \/ RecallAtK \/ MeanReciprocalRank \/ EvaluateMain
SpecEval == InitEval /\ [][NextEval]_vars

InitClassify ==
    ClassInit /\ DedupIdle /\ CleanIdle /\ QueryIdle /\ LoaderIdle /\ IngestIdle /\ ServeIdle /\ EvalIdle /\ ChunkIdle
NextClassify == ClassifyQuery
SpecClassify == InitClassify /\ [][NextClassify]_vars

InitChunk ==
    ChunkInit /\ DedupIdle /\ CleanIdle /\ QueryIdle /\ LoaderIdle /\ IngestIdle /\ ServeIdle /\ EvalIdle /\ ClassIdle
NextChunk == ChunkDocs \/ SetChunkKey \/ AppendChunkTag
SpecChunk == InitChunk /\ [][NextChunk]_vars

(***************************************************************************)
(* C1: get_unique_sources returns one record per distinct (source, page)   *)
(* key of its input; the record of a key is built from the first result    *)
(* that carries the key, and the records are in the order in which the     *)
(* keys first occur.                                                       *)
(***************************************************************************)
\* The positions at which a key occurs for the first time.
FirstOccurrences(results) ==
    {i \in 1..Len(results) :
        \A j \in 1..(i - 1) :
            <<results[j].doc.source, results[j].doc.page>> #
            <<results[i].doc.source, results[i].doc.page>>}

C1_FirstOccurrenceWins ==
    dd_pc = "done" =>
        LET first == FirstOccurrences(docs_and_scores)
        IN /\ Len(unique_sources) = Cardinality(first)
           /\ \A i \in first :
                LET k == Cardinality({j \in first : j <= i})
                    d == docs_and_scores[i].doc
                IN unique_sources[k] =
                       [source |-> d.source, type |-> d.type, name |-> d.name,
                        title |-> d.title, page |-> d.page,
                        score |-> Round4(docs_and_scores[i].score)]

\* Two results share a key, differ in title and score, and a third key follows.
C1_Witness ==
    /\ dd_pc = "done"
    /\ Len(docs_and_scores) = 3
    /\ SourceKey(docs_and_scores[1].doc) = SourceKey(docs_and_scores[2].doc)
    /\ docs_and_scores[1].doc.title # docs_and_scores[2].doc.title
    /\ docs_and_scores[1].score > docs_and_scores[2].score
    /\ SourceKey(docs_and_scores[3].doc) # SourceKey(docs_and_scores[1].doc)
    /\ Len(unique_sources) = 2

(***************************************************************************)
(* C2: clean_query is idempotent: cleaning a cleaned query changes nothing.*)
(***************************************************************************)
C2_CleanIdempotent == cq_pc = "twice" => cq_twice = cq_once

(***************************************************************************)
(* C3: with expansion enabled, any failure during expansion, a failure to  *)
(* construct the model client included, makes process_query return a       *)
(* query context whose expanded field is the cleaned query; no exception   *)
(* reaches the caller.                                                     *)
(***************************************************************************)
C3_ExpansionFailureFallsBack ==
    (/\ pq_pc = "done"
     /\ pq_expand
     /\ (pq_llm.raises \/ build_llm(pq_settings).raised # None))
    => (/\ pq_result.raised = None
        /\ pq_result.ctx.expanded = pq_result.ctx.cleaned)

(***************************************************************************)
(* C5: each loader goes through its items in order, never raises, and      *)
(* returns the documents of exactly the items whose load succeeded, in     *)
(* item order; a failing item contributes nothing and stops nothing.       *)
(***************************************************************************)
\* The item's load succeeds: it is loadable at all and loader.load() returns.
ItemSucceeds(kind, item) ==
    CASE kind = "url" -> item.loads
      [] kind = "wikipedia" -> item.query # None /\ item.loads
      [] kind = "pdf" -> item.exists /\ item.loads

\* The sources of the documents a successful item yields, one per document.
ItemSources(kind, item) ==
    CASE kind = "url" -> <<item.url>>
      [] kind = "wikipedia" -> <<WikipediaSource(item.query[1])>>
      [] kind = "pdf" ->
            [p \in 1..(IF item.path = "p1.pdf" THEN 1 ELSE 2) |->
                ResolvedPath(item.path)]

RECURSIVE ExpectedSources(_, _)
ExpectedSources(kind, items) ==
    IF items = <<>> THEN <<>>
    ELSE (IF ItemSucceeds(kind, Head(items))
          THEN ItemSources(kind, Head(items)) ELSE <<>>)
         \o ExpectedSources(kind, Tail(items))

C5_LoadersSkipFailures ==
    ld_pc = "done" =>
        /\ ld_result.raised = None
        /\ [i \in 1..Len(ld_result.docs) |-> ld_result.docs[i].source[1]]
               = ExpectedSources(ld_kind, ld_items)
        /\ \A i \in 1..Len(ld_result.docs) :
               ld_result.docs[i].type = Some(ld_kind)

\* A failing item stands between two items that load.
C5_Witness ==
    /\ ld_pc = "done"
    /\ Len(ld_items) = 3
    /\ ItemSucceeds(ld_kind, ld_items[1])
    /\ ~ItemSucceeds(ld_kind, ld_items[2])
    /\ ItemSucceeds(ld_kind, ld_items[3])
    /\ ld_kind = "wikipedia"
    /\ Len(ld_result.docs) = 2

(***************************************************************************)
(* C4: one source item that fails to load never makes the ingestion fail   *)
(* as a whole: whatever the sources file (the bad item may be its only     *)
(* item) and the vectorstore type, ingest.main returns without raising and *)
(* has persisted an index of the chunks of the items that did load.        *)
(***************************************************************************)
FailingItems(sources) ==
    Cardinality({i \in 1..Len(sources.web_urls) :
                    ~ItemSucceeds("url", sources.web_urls[i])})
    + Cardinality({i \in 1..Len(sources.wikipedia) :
                    ~ItemSucceeds("wikipedia", sources.wikipedia[i])})
    + Cardinality({i \in 1..Len(sources.pdf_files) :
                    ~ItemSucceeds("pdf", sources.pdf_files[i])})

C4_OneBadSourceNotFatal ==
    (FailingItems(in_sources) = 1 /\ in_log # <<>>) =>
        /\ in_log[1].raised = None
        /\ in_log[1].files # {}

(***************************************************************************)
(* C9: two ingestion runs against the same sources and the same, initially *)
(* empty, target directory leave the same set of file names in it after    *)
(* the first run and after the second.                                     *)
(***************************************************************************)
C9_SameFilesTwice ==
    (Len(in_log) >= 2 /\ in_fs0[in_log[1].target].files = {}) =>
        in_log[2].files = in_log[1].files

\* Both runs returned and wrote files into a directory that existed, empty.
C9_Witness ==
    /\ Len(in_log) = 2
    /\ in_fs0[in_log[1].target] = EmptyDir
    /\ in_log[1].raised = None /\ in_log[2].raised = None
    /\ in_log[1].files # {}
    /\ in_vs_type = "faiss"

(***************************************************************************)
(* C10: after ingest.main(vectorstore_override=D) has returned, D exists   *)
(* and holds at least one file: the index went to the override directory   *)
(* and not to a configured or environment default.                         *)
(***************************************************************************)
C10_OverrideDirHoldsIndex ==
    (in_override = Some("D") /\ in_log # <<>>
        /\ in_log[Len(in_log)].raised = None) =>
        /\ in_fs["D"].exists
        /\ in_fs["D"].files # {}
        /\ \A d \in Dirs \ {"D"} : in_fs[d] = in_fs0[d]

\* The override wins over a set VECTORSTORE_DIR, and creates a missing D.
C10_Witness ==
    /\ in_override = Some("D") /\ in_env = Some("E")
    /\ in_log # <<>> /\ in_log[Len(in_log)].raised = None
    /\ ~in_fs0["D"].exists
    /\ in_fs["D"].files # {}

(***************************************************************************)
(* C6: the staleness check never blocks a query: with any settings file    *)
(* from which the chain can be built, and any state of the sources file    *)
(* and of the index directory, warn_if_stale returns without raising.      *)
(***************************************************************************)
C6_StaleCheckNeverBlocks ==
    build_rag_chain(sv_settings, sv_index0).raised = None =>
        ~(sv_pc = "crashed" /\ sv_crash[1].stage = "warn_if_stale")

(***************************************************************************)
(* C7: build_llm constructs exactly one client, the one of the configured  *)
(* provider, when the provider is openai, ollama or huggingface; with any  *)
(* other provider the error is raised while the chain is built at          *)
(* start-up: the process never gets ready, handles no question, and no     *)
(* question is the first to meet the error.                                *)
(***************************************************************************)
C7_ProviderSelectedAtStartup ==
    LET provider == sv_settings.model.provider
        known == provider # None /\ provider[1] \in KnownProviders
    IN sv_pc # "idle" =>
        /\ (sv_pc = "ready" /\ sv_served = 0) =>
               (known /\ sv_clients = <<ClientOf(provider[1])>>)
        /\ ~known =>
               /\ sv_pc \in {"start", "checked", "crashed"}
               /\ sv_served = 0 /\ sv_last = None
               /\ sv_pc = "crashed" => sv_crash[1].stage # "query"
        /\ (sv_last # None /\ sv_last[1].status = 500) =>
               sv_last[1].cause # "ValueError"
        /\ (sv_pc = "crashed" /\ sv_crash[1].stage = "query") =>
               sv_crash[1].exc # "ValueError"

\* An unrecognised provider has ended the start-up in build_rag_chain.
C7_Witness ==
    /\ sv_pc = "crashed"
    /\ sv_settings.model.provider = Some("bogus")
    /\ sv_crash = Some([stage |-> "build_rag_chain", exc |-> "ValueError"])
    /\ sv_served = 0

(***************************************************************************)
(* C8: a missing index directory is fatal at start-up for every            *)
(* vectorstore type: when the configured index directory does not exist    *)
(* as the chain is built, load_vectorstore raises and no question is       *)
(* served.                                                                 *)
(***************************************************************************)
C8_MissingIndexFatal ==
    (sv_pc # "idle" /\ ~sv_index0.exists) =>
        (sv_pc \in {"start", "checked", "crashed"} /\ sv_served = 0)

(***************************************************************************)
(* C11: precision_at_k returns |S \cap R| / k for k > 0, S the set of      *)
(* sources of the first k retrieved documents and R the set of relevant    *)
(* sources, and 0.0 for k = 0.                                             *)
(***************************************************************************)
\* S: the set of sources of the first k retrieved documents.
TopSources(retrieved_docs, k) ==
    {retrieved_docs[i].source[1] :
        i \in 1..(IF k < Len(retrieved_docs) THEN k ELSE Len(retrieved_docs))}

\* R: the set of relevant sources.
RelevantSet(relevant_docs) == {relevant_docs[i] : i \in 1..Len(relevant_docs)}

C11_PrecisionIsSetRatio ==
    (ev_pc = "done" /\ ev_op = "precision") =>
        IF ev_k = 0 THEN ev_out = Zero
        ELSE FracEq(ev_out,
                    Frac(Cardinality(TopSources(ev_retrieved, ev_k)
                                     \cap RelevantSet(ev_relevant)), ev_k))

(***************************************************************************)
(* C12: recall_at_k returns |S \cap R| / |R| for a non-empty relevant      *)
(* list, so never more than 1, and 0.0 for an empty relevant list.         *)
(***************************************************************************)
C12_RecallIsSetRatio ==
    (ev_pc = "done" /\ ev_op = "recall") =>
        IF ev_relevant = <<>> THEN ev_out = Zero
        ELSE /\ FracEq(ev_out,
                       Frac(Cardinality(TopSources(ev_retrieved, ev_k)
                                        \cap RelevantSet(ev_relevant)),
                            Cardinality(RelevantSet(ev_relevant))))
             /\ FracLe(ev_out, Frac(1, 1))

(***************************************************************************)
(* C13: mean_reciprocal_rank averages, over the queries, 1/r for the rank  *)
(* r (from 1) of the query's first result in the relevant set, or 0 when   *)
(* the query has none; it is 0.0 when there are no queries.                *)
(***************************************************************************)
\* The ranks at which a query's results are in the relevant set.
HitRanks(query_results, relevant) ==
    {r \in 1..Len(query_results) : query_results[r] \in relevant}

\* 1/r for the least hit rank r, 0 without a hit.
ReciprocalRank(query_results, relevant) ==
    LET hits == HitRanks(query_results, relevant)
    IN IF hits = {} THEN Zero
       ELSE Frac(1, CHOOSE r \in hits : \A h \in hits : r <= h)

\* The sum of the reciprocal ranks of the first n queries.
RECURSIVE SumReciprocal(_, _, _)
SumReciprocal(results, relevantOf, n) ==
    IF n = 0 THEN Zero
    ELSE FracAdd(SumReciprocal(results, relevantOf, n - 1),
                 ReciprocalRank(results[n], relevantOf[n]))

C13_MrrIsMeanOfFirstHits ==
    (ev_pc = "done" /\ ev_op = "mrr") =>
        IF ev_results = <<>> THEN ev_out = Zero
        ELSE LET n == Len(ev_results)
                 total == SumReciprocal(ev_results,
                                        [q \in 1..n |-> RelevantSet(ev_relevant)], n)
             IN FracEq(ev_out, Frac(total.num, total.den * n))

\* Two queries: the first hits at rank 2 after a miss and has a second hit
\* behind it or not, the second has no hit.
C13_Witness ==
    /\ ev_pc = "done" /\ ev_op = "mrr"
    /\ Len(ev_results) = 2
    /\ HitRanks(ev_results[1], RelevantSet(ev_relevant)) = {2}
    /\ Len(ev_results[2]) = 2
    /\ HitRanks(ev_results[2], RelevantSet(ev_relevant)) = {}
    /\ FracEq(ev_out, Frac(1, 4))

(***************************************************************************)
(* C18: the MRR of evaluate.main, computed against the relevant documents  *)
(* pooled over all items, is at least the MRR of the same ranked lists     *)
(* scored each against its own item's relevant_docs, and it is greater     *)
(* exactly when some query's results hold, above the query's own first     *)
(* relevant hit, a source that is relevant only to another query.          *)
(***************************************************************************)
\* The sources retrieved for item q, in rank order.
RankedSources(q) ==
    [r \in 1..Len(ev_data[q].results) |-> ev_data[q].results[r].source[1]]

\* The MRR with every query scored against its own relevant_docs.
PerQueryMrr ==
    LET n == Len(ev_data)
        total == SumReciprocal([q \in 1..n |-> RankedSources(q)],
                               [q \in 1..n |-> RelevantSet(ev_data[q].relevant_docs)],
                               n)
    IN Frac(total.num, total.den * n)

\* Some query ranks a source relevant only to other queries above its own
\* first relevant hit.
ForeignHitAbove ==
    \E q \in 1..Len(ev_data) :
        LET own == RelevantSet(ev_data[q].relevant_docs)
            pooled == UNION {RelevantSet(ev_data[p].relevant_docs) :
                                p \in 1..Len(ev_data)}
            ranked == RankedSources(q)
        IN \E r \in 1..Len(ranked) :
              /\ ranked[r] \in pooled \ own
              /\ \A r2 \in 1..r : ranked[r2] \notin own

C18_PooledMrrDominates ==
    (ev_pc = "done" /\ ev_op = "evaluate" /\ ev_out.raised = None) =>
        /\ FracLe(PerQueryMrr, ev_out.mrr)
        /\ FracLt(PerQueryMrr, ev_out.mrr) <=> ForeignHitAbove

\* The first query ranks the second query's relevant source above its own.
C18_Witness ==
    /\ ev_pc = "done" /\ ev_op = "evaluate" /\ ev_out.raised = None
    /\ Len(ev_data) = 2
    /\ ev_data[1].relevant_docs = <<"A">>
    /\ ev_data[2].relevant_docs = <<"B">>
    /\ RankedSources(1) = <<"B", "A">>
    /\ RankedSources(2) = <<"B">>
    /\ FracEq(PerQueryMrr, Frac(3, 4))
    /\ FracEq(ev_out.mrr, Frac(1, 1))

(***************************************************************************)
(* C14: classify_query returns exactly one of procedural, conceptual,      *)
(* factual and generic: the label of the highest-priority category, in     *)
(* the order procedural > conceptual > factual, of which the query         *)
(* contains a keyword, and generic when it contains no keyword; a query    *)
(* containing both "steps" and "what" is procedural.                       *)
(***************************************************************************)
\* The categories from the highest priority to the lowest.
CategoryPriority == <<"procedural", "conceptual", "factual">>

KeywordsOf(category) ==
    CASE category = "procedural" -> procedural_keywords
      [] category = "conceptual" -> conceptual_keywords
      [] category = "factual" -> factual_keywords

\* The ranks in CategoryPriority of the categories the query matches.
MatchedRanks(query) ==
    {i \in 1..Len(CategoryPriority) :
        \E k \in KeywordsOf(CategoryPriority[i]) : IsInfix(k, Lower(query))}

C14_HighestPriorityLabel ==
    cy_pc = "done" =>
        LET matched == MatchedRanks(cy_query)
        IN /\ cy_label \in {Some("procedural"), Some("conceptual"),
                            Some("factual"), Some("generic")}
           /\ matched = {} => cy_label = Some("generic")
           /\ matched # {} =>
                 cy_label = Some(CategoryPriority[
                                CHOOSE i \in matched : \A j \in matched : i <= j])
           /\ (IsInfix(<<"s","t","e","p","s">>, cy_query)
                 /\ IsInfix(<<"w","h","a","t">>, cy_query))
              => cy_label = Some("procedural")

\* "what steps" matches the factual and the procedural keywords.
C14_Witness ==
    /\ cy_pc = "done"
    /\ cy_query = <<"w","h","a","t"," ","s","t","e","p","s">>
    /\ MatchedRanks(cy_query) = {1, 3}
    /\ cy_label = Some("procedural")

(***************************************************************************)
(* C15: every chunk returned by chunk_docs carries a full copy, not a      *)
(* shared reference, of its parent's metadata plus chunk_size: a change    *)
(* to one chunk's metadata, to a top-level key or inside a nested value,   *)
(* shows neither in the parent's metadata nor in another chunk's, and the  *)
(* parent's metadata has gained no chunk_size key.                         *)
(***************************************************************************)
C15_ChunkMetadataIsFullCopy ==
    ck_pc \in {"chunked", "changed"} =>
        /\ \A c \in 1..Len(ck_chunks) :
              ck_before[ck_chunks[c]].chunk_size = Some(chunk_size)
        /\ \A i \in 1..Len(ck_docs) :
              /\ Holds(ck_dicts, ck_lists, ck_docs[i]) = ck_before[ck_docs[i]]
              /\ ck_dicts[ck_docs[i]].chunk_size = None
              /\ ck_before[ck_docs[i]] =
                    [source |-> ck_in[i].source, tags |-> ck_in[i].tags,
                     chunk_size |-> None]
        /\ \A c \in 1..Len(ck_chunks) :
              c # ck_touched =>
                 Holds(ck_dicts, ck_lists, ck_chunks[c]) = ck_before[ck_chunks[c]]

(***************************************************************************)
(* C16: in the /ask handler every exception raised at a step of request    *)
(* processing gives a 500 response whose detail is the fixed generic       *)
(* message, with no text of the exception and no body; a request in which  *)
(* no step raises returns answer, sources and query_metadata.              *)
(***************************************************************************)
C16_OpaqueServerError ==
    (sv_mode = "api" /\ sv_last # None) =>
        LET o == sv_last[1]
        IN /\ o.cause # "" =>
                 /\ o.status = 500
                 /\ o.detail = "Internal server error"
                 /\ o.detail # o.cause
                 /\ o.body = None
           /\ o.cause = "" =>
                 /\ o.status = 200
                 /\ o.body # None
                 /\ DOMAIN o.body[1] = {"answer", "sources", "query_metadata"}
                 /\ o.body[1].answer = <<"a">>

\* A request answered after one whose similarity search raised.
C16_Witness ==
    /\ sv_mode = "api" /\ sv_served = 2 /\ sv_last # None
    /\ sv_last[1].status = 500
    /\ sv_last[1].step = "similarity_search_with_score"
    /\ sv_last[1].cause = "SearchError"
    /\ sv_last[1].detail = "Internal server error"

(***************************************************************************)
(* C17: after any sequence of ingestion runs against the same index        *)
(* directory, with FAISS and with Chroma, the persisted index holds        *)
(* exactly one entry per chunk of the most recent run: none left over or   *)
(* duplicated from an earlier run.                                         *)
(***************************************************************************)
C17_IndexHoldsLastRunOnly ==
    in_log # <<>> =>
        LET last == in_log[Len(in_log)]
        IN in_fs[last.target].entries = last.chunks

====
